---- MODULE Spec2Model ----
(***************************************************************************)
(* Admission control of the video downloader bot: the ResourceManager      *)
(* (resource_manager.py), driven by concurrent asyncio tasks that enter    *)
(* and leave download_slot scopes, and the request handlers of bot.py.     *)
(*                                                                         *)
(* asyncio runs the tasks of one event loop cooperatively: a task is only  *)
(* descheduled at an await that really suspends.  Every block guarded by   *)
(* `async with self._lock` in resource_manager.py contains no await, so    *)
(* the lock is free whenever a task reaches it, Lock.acquire() returns     *)
(* without suspending, and the block runs as one step.  The only           *)
(* suspension point of download_slot is the `yield` (the scope body).      *)
(***************************************************************************)
EXTENDS Integers, Sequences, FiniteSets, TLC

\* ---- bounds of the model ----
NumTasks == 2
NumUsers == 2
MaxScopes == 3
MaxCap   == 2

\* calls counted in one run of parallel acquisitions
MaxBurst == NumTasks + 1

\* bounds of the request handlers and of the rate limiter they consult
NumReqs        == 1
UserCapacity   == 1
GlobalCapacity == 2
Period         == 1
MaxTime        == 1

\* bounds of a TokenBucket and of a RateLimiter exercised on their own
MaxCapacity == 2
MaxRate     == 2
MaxConsume  == 2
MaxClock    == 1

\* calls recorded in one run of calls at one clock reading
MaxRun == MaxCapacity + 2

Tasks == 1..NumTasks
Users == 1..NumUsers
Reqs  == 1..NumReqs

VARIABLES
  max_concurrent_downloads,   \* ResourceManager.max_concurrent_downloads
  max_downloads_per_user,     \* ResourceManager.max_downloads_per_user
  active_downloads,           \* ResourceManager.active_downloads: task_id -> user_id
  slot_owner,                 \* history: key -> depth of the scope that wrote the entry
  lock,                       \* ResourceManager._lock: the task that holds it, 0 when free
  scopes,                     \* per task, the users of the download_slot scopes it is inside of
  last,                       \* the last call and what it returned or raised
  burst,                      \* history: the calls since construction while nothing was left or cancelled
  now,                        \* time.time(), in ticks
  global_bucket,              \* RateLimiter.global_bucket
  user_buckets,               \* RateLimiter.user_buckets: user_id -> TokenBucket
  req,                        \* the handlers in flight: kind, user, position in the code
  user_capacity,              \* RateLimiter.user_capacity
  user_refill_rate,           \* RateLimiter.user_refill_rate, in token units per tick
  bucket,                     \* a TokenBucket used on its own
  call,                       \* the last call of a bucket or of the limiter and what it returned
  run,                        \* history: the results of the calls made in a row at one clock reading
  retry                       \* one call of a function wrapped by async_retry

rmvars == <<max_concurrent_downloads, max_downloads_per_user, active_downloads,
            slot_owner, lock, scopes, last, burst>>
botvars == <<now, global_bucket, user_buckets, req>>
cfgvars == <<user_capacity, user_refill_rate>>
limvars == <<bucket, call, run>>
retryvars == <<retry>>
vars == <<rmvars, botvars, cfgvars, limvars, retryvars>>

\* ---- ResourceManager ----

\* id(asyncio.current_task()): one value per task, the same for every call
\* the task makes.
TaskId(t) == t

\* len(self.active_downloads)
ActiveCount(m) == Cardinality(DOMAIN m)

UserActiveUnfiltered(m, u) == Cardinality(DOMAIN m)
\* sum(1 for uid in self.active_downloads.values() if uid == user_id)
UserActive(m, u) == Cardinality({k \in DOMAIN m : m[k] = u})

\* what a call hands back: a value, or the exception it raises
Result(type, text, count) == [type |-> type, text |-> text, count |-> count]

\* the scope was entered: download_slot reached its yield
Granted == Result("granted", "", 0)

\* a scope was left in the way `how`; quiet: it was granted by the call just
\* before, when its user had pre entries (the record of another exit keeps
\* only the way)
Left(how, quiet, pre) == Result(how, IF quiet THEN "quiet" ELSE "", pre)

\* ResourceError("Server is busy (<n> active downloads). ...")
GlobalError(n) == Result("ResourceError", "Server is busy", n)

\* ResourceError("You have <n> active downloads. ...")
UserError(n) == Result("ResourceError", "You have", n)

GlobalFullOffByOne(m, cap) == ActiveCount(m) > cap
GlobalFullEarly(m, cap) == ActiveCount(m) + 1 >= cap
\* if active_count >= self.max_concurrent_downloads
GlobalFull(m, cap) == ActiveCount(m) >= cap

UserFullOffByOne(m, u, cap) == UserActive(m, u) > cap
\* if user_active >= self.max_downloads_per_user
UserFull(m, u, cap) == UserActive(m, u) >= cap

DecideUserFirst(m, u, gcap, ucap) ==
  IF UserFull(m, u, ucap) THEN UserError(UserActive(m, u))
  ELSE IF GlobalFull(m, gcap) THEN GlobalError(ActiveCount(m))
  ELSE Granted
\* the two checks of download_slot in the order the code makes them
Decide(m, u, gcap, ucap) ==
  IF GlobalFull(m, gcap) THEN GlobalError(ActiveCount(m))
  ELSE IF UserFull(m, u, ucap) THEN UserError(UserActive(m, u))
  ELSE Granted

\* self._lock = asyncio.Lock(): nobody holds it
Free == 0

LockHeldAtYield(t) == t
\* the holder of the lock when download_slot yields to the scope body: the
\* `async with self._lock` block has ended before the try
LockAtYield(t) == Free

\* get_user_active_downloads(user_id): the value returned
GetUserActiveDownloads(m, u) == Cardinality({k \in DOMAIN m : m[k] = u})

\* self.active_downloads[task_id] = user_id
Insert(m, k, u) == [x \in DOMAIN m \cup {k} |-> IF x = k THEN u ELSE m[x]]

ReleaseForgotten(m, k) == m
ReleaseSome(m, k) ==
  IF k \in DOMAIN m THEN [x \in DOMAIN m \ {k} |-> m[x]]
  ELSE IF DOMAIN m # {} THEN [x \in DOMAIN m \ {CHOOSE y \in DOMAIN m : TRUE} |-> m[x]]
  ELSE m
\* if task_id in self.active_downloads: self.active_downloads.pop(task_id)
Release(m, k) == IF k \in DOMAIN m THEN [x \in DOMAIN m \ {k} |-> m[x]] ELSE m

\* the entries cancel_user_downloads pops
CancelUserOne(m, u) ==
  IF \E k \in DOMAIN m : m[k] = u
  THEN [x \in DOMAIN m \ {CHOOSE k \in DOMAIN m : m[k] = u} |-> m[x]]
  ELSE m
CancelUser(m, u) == [x \in {k \in DOMAIN m : m[k] # u} |-> m[x]]

AfterRefusalReleased(m, k) == [x \in DOMAIN m \ {k} |-> m[x]]
\* the mapping after download_slot raised ResourceError: the raise is
\* before the try, so the finally block does not run
AfterRefusal(m, k) == m

\* ---- history bookkeeping ----

Restrict(f, S) == [x \in S \cap DOMAIN f |-> f[x]]

UserCountsPresence(m) == [u \in {m[k] : k \in DOMAIN m} |-> 1]
\* user_counts[user_id] = user_counts.get(user_id, 0) + 1 over the values
UserCounts(m) ==
  [u \in {m[k] : k \in DOMAIN m} |-> Cardinality({k \in DOMAIN m : m[k] = u})]

\* the dict get_status returns
StatusSnapshot(m, cap) ==
  [active_downloads |-> Cardinality(DOMAIN m),
   max_downloads |-> cap,
   active_users |-> Cardinality(DOMAIN UserCounts(m)),
   user_breakdown |-> UserCounts(m)]

\* no dict was returned
NoStatus ==
  [active_downloads |-> 0, max_downloads |-> 0, active_users |-> 0, user_breakdown |-> <<>>]

\* one record for every call: what came back, for whom, and for a
\* download_slot call the mapping it found (n entries, pre of them the
\* user's) and the key it inserted under (0 when it inserted nothing)
Call(op, k, u, r, n, pre) ==
  [op |-> op, task |-> k, user |-> u, result |-> r, n |-> n, pre |-> pre,
   status |-> NoStatus]

\* the run of calls since construction: ok until a scope is left or
\* cancelled, flat while every call came from a task that holds nothing,
\* for a user below the per-user cap
BurstStart == [ok |-> TRUE, flat |-> TRUE, calls |-> 0, granted |-> 0, global_fail |-> 0]
BurstOver == [ok |-> FALSE, flat |-> FALSE, calls |-> 0, granted |-> 0, global_fail |-> 0]

\* the scopes that were entered and not yet left: <<task, depth>>
HeldScopes == {p \in Tasks \X (1..MaxScopes) : p[2] <= Len(scopes[p[1]])}

\* the user of the innermost scope of task t
TopUser(t) == scopes[t][Len(scopes[t])]

\* ---- TokenBucket and RateLimiter (rate_limiter.py) ----
\* Tokens are counted in units of 1/(2 * Period) of a token and time in
\* ticks, so that a per-user refill rate of 1/Period tokens per tick (bot.py:
\* user_refill_rate = 1.0 / config.rate_limit_period) is two units per tick,
\* the global rate of 1.0 token per tick is TokenUnit units per tick, and a
\* bucket can hold a fraction of a token.
TokenUnit == 2 * Period

Min(a, b) == IF a <= b THEN a ELSE b

\* TokenBucket.__init__ at clock reading t
NewBucket(capacity, rate, t) ==
  [capacity |-> capacity * TokenUnit, refill_rate |-> rate,
   tokens |-> capacity * TokenUnit, last_refill |-> t]

RefillUnclamped(b, t) ==
  [b EXCEPT !.tokens = b.tokens + (t - b.last_refill) * b.refill_rate,
            !.last_refill = t]
\* TokenBucket._refill at clock reading t
Refill(b, t) ==
  [b EXCEPT !.tokens = Min(b.capacity, b.tokens + (t - b.last_refill) * b.refill_rate),
            !.last_refill = t]

ConsumeUnrefilled(b, t, n) ==
  IF Refill(b, t).tokens >= n * TokenUnit
  THEN [Refill(b, t) EXCEPT !.tokens = @ - n * TokenUnit]
  ELSE [b EXCEPT !.last_refill = t]
ConsumeFree(b, t, n) == Refill(b, t)
\* TokenBucket.consume(n) at clock reading t: the bucket afterwards
ConsumeBucket(b, t, n) ==
  LET r == Refill(b, t)
  IN IF r.tokens >= n * TokenUnit THEN [r EXCEPT !.tokens = @ - n * TokenUnit] ELSE r

\* TokenBucket.consume(n) at clock reading t: the value returned
ConsumeOk(b, t, n) == Refill(b, t).tokens >= n * TokenUnit

\* TokenBucket.time_until_ready at clock reading t: the bucket afterwards
ReadyBucket(b, t) == Refill(b, t)

\* TokenBucket.time_until_ready at clock reading t: the wait as the fraction
\* num / den of a tick, <<0, 1>> when a token is there
ReadyWait(b, t) ==
  LET r == Refill(b, t)
  IN IF r.tokens >= TokenUnit THEN <<0, 1>> ELSE <<TokenUnit - r.tokens, r.refill_rate>>

BucketOfFresh(ub, u, t) == NewBucket(user_capacity, user_refill_rate, t)
\* self.user_buckets[user_id] of the defaultdict: the bucket, made on a miss
BucketOf(ub, u, t) ==
  IF u \in DOMAIN ub THEN ub[u] ELSE NewBucket(user_capacity, user_refill_rate, t)

SetBucket(ub, u, b) == [x \in DOMAIN ub \cup {u} |-> IF x = u THEN b ELSE ub[x]]

CheckLimitGlobalOnly(gb, ub, u, t1, t2) ==
  IF ~ConsumeOk(gb, t1, 1)
  THEN [allowed |-> FALSE, wait |-> ReadyWait(ConsumeBucket(gb, t1, 1), t2),
        global |-> ReadyBucket(ConsumeBucket(gb, t1, 1), t2), users |-> ub]
  ELSE [allowed |-> TRUE, wait |-> <<0, 1>>, global |-> ConsumeBucket(gb, t1, 1),
        users |-> SetBucket(ub, u, ConsumeBucket(BucketOf(ub, u, t1), t1, 1))]
CheckLimitTouchesUser(gb, ub, u, t1, t2) ==
  LET g == ConsumeBucket(gb, t1, 1)
      b == BucketOf(ub, u, t1)
  IN IF ~ConsumeOk(gb, t1, 1)
     THEN [allowed |-> FALSE, wait |-> ReadyWait(g, t2), global |-> ReadyBucket(g, t2),
           users |-> SetBucket(ub, u, Refill(b, t1))]
     ELSE IF ~ConsumeOk(b, t1, 1)
          THEN [allowed |-> FALSE, wait |-> ReadyWait(ConsumeBucket(b, t1, 1), t2),
                global |-> g,
                users |-> SetBucket(ub, u, ReadyBucket(ConsumeBucket(b, t1, 1), t2))]
          ELSE [allowed |-> TRUE, wait |-> <<0, 1>>,
                global |-> g, users |-> SetBucket(ub, u, ConsumeBucket(b, t1, 1))]
CheckLimitRefund(gb, ub, u, t1, t2) ==
  LET g == ConsumeBucket(gb, t1, 1)
      b == BucketOf(ub, u, t1)
  IN IF ~ConsumeOk(gb, t1, 1)
     THEN [allowed |-> FALSE, wait |-> ReadyWait(g, t2), global |-> ReadyBucket(g, t2),
           users |-> ub]
     ELSE IF ~ConsumeOk(b, t1, 1)
          THEN [allowed |-> FALSE, wait |-> ReadyWait(ConsumeBucket(b, t1, 1), t2),
                global |-> Refill(gb, t1),
                users |-> SetBucket(ub, u, ReadyBucket(ConsumeBucket(b, t1, 1), t2))]
          ELSE [allowed |-> TRUE, wait |-> <<0, 1>>,
                global |-> g, users |-> SetBucket(ub, u, ConsumeBucket(b, t1, 1))]
CheckLimitForgetsUser(gb, ub, u, t1, t2) ==
  LET g == ConsumeBucket(gb, t1, 1)
      b == BucketOf(ub, u, t1)
  IN IF ~ConsumeOk(gb, t1, 1)
     THEN [allowed |-> FALSE, wait |-> ReadyWait(g, t2), global |-> ReadyBucket(g, t2),
           users |-> ub]
     ELSE IF ~ConsumeOk(b, t1, 1)
          THEN [allowed |-> FALSE, wait |-> ReadyWait(ConsumeBucket(b, t1, 1), t2),
                global |-> g,
                users |-> [x \in DOMAIN ub \ {u} |-> ub[x]]]
          ELSE [allowed |-> TRUE, wait |-> <<0, 1>>,
                global |-> g, users |-> SetBucket(ub, u, ConsumeBucket(b, t1, 1))]
CheckLimitLostUpdate(gb, ub, u, t1, t2) ==
  LET g == ConsumeBucket(gb, t1, 1)
      b == BucketOf(ub, u, t1)
  IN IF ~ConsumeOk(gb, t1, 1)
     THEN [allowed |-> FALSE, wait |-> ReadyWait(g, t2), global |-> ReadyBucket(g, t2),
           users |-> ub]
     ELSE IF ~ConsumeOk(b, t1, 1)
          THEN [allowed |-> FALSE, wait |-> ReadyWait(ConsumeBucket(b, t1, 1), t2),
                global |-> g,
                users |-> SetBucket(ub, u, ReadyBucket(ConsumeBucket(b, t1, 1), t2))]
          ELSE [allowed |-> TRUE, wait |-> <<0, 1>>,
                global |-> Refill(gb, t1), users |-> SetBucket(ub, u, ConsumeBucket(b, t1, 1))]
\* RateLimiter.check_limit(u): the clock reads t1 in consume and t2 >= t1 in
\* time_until_ready.  Yields [allowed, wait, global, users].
CheckLimit(gb, ub, u, t1, t2) ==
  IF ~ConsumeOk(gb, t1, 1)
  THEN [allowed |-> FALSE, wait |-> ReadyWait(ConsumeBucket(gb, t1, 1), t2),
        global |-> ReadyBucket(ConsumeBucket(gb, t1, 1), t2), users |-> ub]
  ELSE LET g == ConsumeBucket(gb, t1, 1)
           b == BucketOf(ub, u, t1)
       IN IF ~ConsumeOk(b, t1, 1)
          THEN [allowed |-> FALSE, wait |-> ReadyWait(ConsumeBucket(b, t1, 1), t2),
                global |-> g,
                users |-> SetBucket(ub, u, ReadyBucket(ConsumeBucket(b, t1, 1), t2))]
          ELSE [allowed |-> TRUE, wait |-> <<0, 1>>,
                global |-> g, users |-> SetBucket(ub, u, ConsumeBucket(b, t1, 1))]

\* one record for every call of a bucket: the argument n or 0, the boolean
\* returned (TRUE when none is), the wait returned (<<0, 1>> when none is),
\* and pre, the tokens the call found in the bucket before its refill
Outcome(op, u, n, ok, wait, pre) ==
  [op |-> op, user |-> u, n |-> n, ok |-> ok, wait |-> wait, pre |-> pre, upre |-> 0,
   changed |-> {}]

\* no call has returned since the clock was last read differently
NoCall == Outcome("none", 0, 0, TRUE, <<0, 1>>, 0)

\* what a call of the limiter for user u changed, from the buckets before
\* (gb, ub) and after (gb2, ub2): the global bucket, the bucket of u, the
\* bucket of another user, and whether a user gained or lost a bucket
Changed(gb, ub, gb2, ub2, u) ==
  LET both == DOMAIN ub \cap DOMAIN ub2
  IN (IF gb2 # gb THEN {"global"} ELSE {})
     \cup (IF u \in both /\ ub2[u] # ub[u] THEN {"own"} ELSE {})
     \cup (IF u \in both /\ ub2[u].tokens < ub[u].tokens THEN {"lowered"} ELSE {})
     \cup (IF \E x \in both \ {u} : ub2[x] # ub[x] THEN {"others"} ELSE {})
     \cup (IF DOMAIN ub2 \ DOMAIN ub # {} THEN {"created"} ELSE {})
     \cup (IF DOMAIN ub \ DOMAIN ub2 # {} THEN {"removed"} ELSE {})

\* the record of a call of the limiter for user u (0 when it has none):
\* its argument n or 0, what it returned, what it changed, and two facts
\* pre and upre about the buckets it found
LimiterOutcome(op, u, n, ok, wait, pre, upre, changed) ==
  [op |-> op, user |-> u, n |-> n, ok |-> ok, wait |-> wait, pre |-> pre, upre |-> upre,
   changed |-> changed]

\* the calls made in a row with no time elapsing and nothing in between:
\* the run that starts at construction is fresh, the run that starts after
\* another call or after time has passed is not
RunStart == [fresh |-> TRUE, user |-> 0, results |-> <<>>]
RunOver == [fresh |-> FALSE, user |-> 0, results |-> <<>>]

\* one more result of the run
RunMore(u, ok, wait) ==
  [run EXCEPT !.user = u, !.results = Append(@, [ok |-> ok, wait |-> wait, user |-> u])]

\* ---- async_retry ----

MaxAttempts == 4
MaxDelay == 2
MaxBackoff == 2

RECURSIVE Pow(_, _)
\* b to the power n
Pow(b, n) == IF n = 0 THEN 1 ELSE b * Pow(b, n - 1)

\* no wrapped function has been called
NoRetry ==
  [pc |-> "idle", max_attempts |-> 0, delay |-> 0, backoff |-> 0, attempt |-> 0,
   current_delay |-> 0, last_exception |-> 0, calls |-> 0, sleeps |-> <<>>,
   result |-> 0, raised |-> [kind |-> "none", of |-> 0]]

SleepsAlways(attempt, max_attempts) == TRUE
\* if attempt < max_attempts - 1: the wrapper sleeps before the next attempt
SleepsBeforeNext(attempt, max_attempts) == attempt < max_attempts - 1

\* ---- operations ----

\* no handler runs for the request
NoRequest == [kind |-> "none", user |-> 0, limit |-> "none", pc |-> "idle", progress |-> "none"]

\* the handler of request r has returned and its record is dropped; a
\* progress task that is running at that step is left behind
Returned(r) == NoRequest

\* bot.py at import: RateLimiter(...) and init_resource_manager(...); no
\* handler has started
BotIdle ==
  /\ now = 0
  /\ user_capacity = UserCapacity
  /\ user_refill_rate = TokenUnit \div Period
  /\ global_bucket = NewBucket(GlobalCapacity, TokenUnit, 0)
  /\ user_buckets = <<>>
  /\ req = [r \in Reqs |-> NoRequest]

\* no TokenBucket is used on its own and no call was recorded
BucketIdle ==
  /\ bucket = NewBucket(1, 1, 0)
  /\ call = Outcome("init", 0, 0, TRUE, <<0, 1>>, 0)
  /\ run = RunStart

Init ==
  /\ BotIdle
  /\ BucketIdle
  /\ max_concurrent_downloads \in 1..MaxCap
  /\ max_downloads_per_user \in 1..MaxCap
  /\ active_downloads = <<>>
  /\ slot_owner = <<>>
  /\ lock = Free
  /\ scopes = [t \in Tasks |-> <<>>]
  /\ last = Call("init", 0, 0, Result("none", "", 0), 0, 0)
  /\ burst = BurstStart
  /\ retry = NoRetry

\* `async with manager.download_slot(u)` entered by task t: the code up to
\* the yield.
DownloadSlotEnter(t, u) ==
  LET m == active_downloads
      r == Decide(m, u, max_concurrent_downloads, max_downloads_per_user)
      \* what the call found, for the record
      found == Cardinality(DOMAIN m)
      foundOfUser == Cardinality({k \in DOMAIN m : m[k] = u})
      parallel == Len(scopes[t]) = 0 /\ foundOfUser < max_downloads_per_user
  IN
  /\ Cardinality(HeldScopes) < MaxScopes
  /\ burst.ok => burst.calls < MaxBurst
  /\ lock = Free
  /\ lock' = IF r = Granted THEN LockAtYield(t) ELSE Free
  /\ last' = Call("download_slot", IF r = Granted THEN TaskId(t) ELSE 0, u, r,
                  found, foundOfUser)
  /\ IF r = Granted
     THEN /\ active_downloads' = Insert(m, TaskId(t), u)
          /\ slot_owner' = Insert(slot_owner, TaskId(t), Len(scopes[t]) + 1)
          /\ scopes' = [scopes EXCEPT ![t] = Append(@, u)]
     ELSE /\ active_downloads' = AfterRefusal(m, TaskId(t))
          /\ slot_owner' = Restrict(slot_owner, DOMAIN active_downloads')
          /\ UNCHANGED scopes
  /\ burst' = IF burst.ok
              THEN [ok |-> TRUE, flat |-> burst.flat /\ parallel,
                    calls |-> burst.calls + 1,
                    granted |-> burst.granted + (IF r = Granted THEN 1 ELSE 0),
                    global_fail |-> burst.global_fail +
                        (IF r.text = "Server is busy" THEN 1 ELSE 0)]
              ELSE BurstOver
  /\ UNCHANGED <<max_concurrent_downloads, max_downloads_per_user>>
  /\ UNCHANGED <<botvars, cfgvars, retryvars, limvars>>

\* The innermost scope of task t ends: its body returned, raised, or the
\* task was cancelled while suspended in it; the finally block runs.
DownloadSlotExit(t, how) ==
  /\ Len(scopes[t]) > 0
  /\ lock = Free
  /\ lock' = Free
  /\ LET d == Len(scopes[t])
         k == TaskId(t)
     IN
     /\ active_downloads' = Release(active_downloads, k)
     /\ slot_owner' = Restrict(slot_owner, DOMAIN active_downloads')
     /\ scopes' = [scopes EXCEPT ![t] = SubSeq(@, 1, d - 1)]
     /\ last' = IF last.op = "download_slot" /\ last.result = Granted /\ last.task = k
                THEN Call("exit", 0, TopUser(t), Left(how, TRUE, last.pre),
                          Cardinality(DOMAIN active_downloads)
                            - Cardinality(DOMAIN active_downloads'), 0)
                ELSE Call("exit", 0, 0, Left(how, FALSE, 0),
                          Cardinality(DOMAIN active_downloads)
                            - Cardinality(DOMAIN active_downloads'), 0)
  /\ burst' = BurstOver
  /\ UNCHANGED <<max_concurrent_downloads, max_downloads_per_user>>
  /\ UNCHANGED <<botvars, cfgvars, retryvars, limvars>>

\* cancel_user_downloads(u)
CancelInterruptsScopes(u) ==
  /\ lock = Free
  /\ lock' = Free
  /\ active_downloads' = CancelUser(active_downloads, u)
  /\ slot_owner' = Restrict(slot_owner, DOMAIN active_downloads')
  /\ scopes' = [t \in Tasks |-> SelectSeq(scopes[t], LAMBDA x : x # u)]
  /\ last' = Call("cancel_user_downloads", 0, u,
                  Result("return", "",
                         ActiveCount(active_downloads) - ActiveCount(active_downloads')), 0, 0)
  /\ burst' = BurstOver
  /\ UNCHANGED <<max_concurrent_downloads, max_downloads_per_user>>
  /\ UNCHANGED <<botvars, cfgvars, retryvars, limvars>>
CancelUserDownloads(u) ==
  /\ lock = Free
  /\ lock' = Free
  /\ active_downloads' = CancelUser(active_downloads, u)
  /\ slot_owner' = Restrict(slot_owner, DOMAIN active_downloads')
  /\ last' = Call("cancel_user_downloads", 0, u,
                  Result("return", "",
                         ActiveCount(active_downloads) - ActiveCount(active_downloads')), 0, 0)
  /\ burst' = BurstOver
  /\ UNCHANGED <<max_concurrent_downloads, max_downloads_per_user, scopes>>
  /\ UNCHANGED <<botvars, cfgvars, retryvars, limvars>>

\* get_status(): the snapshot is taken under the lock
GetStatus ==
  /\ lock = Free
  /\ lock' = Free
  /\ last' = [Call("get_status", 0, 0, Result("return", "", 0), 0, 0)
                EXCEPT !.status = StatusSnapshot(active_downloads, max_concurrent_downloads)]
  /\ burst' = BurstOver
  /\ UNCHANGED <<max_concurrent_downloads, max_downloads_per_user, active_downloads,
                 slot_owner, scopes>>
  /\ UNCHANGED <<botvars, cfgvars, retryvars, limvars>>

Enter == \E t \in Tasks, u \in Users : DownloadSlotEnter(t, u)
Exit == \E t \in Tasks, how \in {"return", "exception", "cancelled"} : DownloadSlotExit(t, how)
Cancel == \E u \in Users : CancelUserDownloads(u)

Next == Enter \/ Exit \/ Cancel \/ GetStatus

Spec == Init /\ [][Next]_vars

\* the calls of a manager on which cancel_user_downloads is never called
NextNoCancel == Enter \/ Exit \/ GetStatus

SpecNoCancel == Init /\ [][NextNoCancel]_vars

\* ---- the request handlers of bot.py ----
\* A message is given by what the checks of handle_message make of its
\* text, a button press by what handle_quality_callback makes of its data.
MessageKinds == {"empty", "no_url", "bad_url", "youtube", "direct"}
CallbackKinds == {"quality", "bad_data", "info", "refresh"}

\* where handle_message goes after an admitted check_limit
AfterChecks(msg) ==
  IF msg \in {"empty", "no_url", "bad_url"} THEN "rejected"
  ELSE IF msg = "youtube" THEN "menu"
  ELSE "preparing"

AfterLimitIgnored(allowed, msg) == AfterChecks(msg)
\* allowed, wait_time = rate_limiter.check_limit(user_id); if not allowed:
\* reply the wait time and return
AfterLimit(allowed, msg) == IF allowed THEN AfterChecks(msg) ELSE "denied"

MessageLimitAfterValidation(gb, ub, u, msg, t1, t2) ==
  IF AfterChecks(msg) = "rejected"
  THEN [allowed |-> TRUE, wait |-> <<0, 1>>, global |-> gb, users |-> ub]
  ELSE CheckLimit(gb, ub, u, t1, t2)
\* rate_limiter.check_limit(user_id) is called before message_text is
\* examined: what it yields does not depend on the text
MessageLimit(gb, ub, u, msg, t1, t2) == CheckLimit(gb, ub, u, t1, t2)

\* handle_message up to its first await: check_limit, then the checks of the
\* text.  limit keeps what check_limit returned to this request.  d is the time that passes between the two clock readings of
\* check_limit.
HandleMessage(r, u, msg, d) ==
  /\ req[r].pc = "idle"
  /\ now + d <= MaxTime
  /\ LET c == MessageLimit(global_bucket, user_buckets, u, msg, now, now + d)
     IN /\ global_bucket' = c.global
        /\ user_buckets' = c.users
        /\ req' = [req EXCEPT ![r] = [kind |-> "message", user |-> u,
                     limit |-> IF c.allowed THEN "allowed" ELSE "denied",
                     pc |-> AfterLimit(c.allowed, msg),
                     progress |-> req[r].progress]]
  /\ now' = now + d
  /\ UNCHANGED <<rmvars, cfgvars, retryvars, limvars>>

\* where handle_quality_callback goes after parsing query.data
AfterParse(data) ==
  IF data = "quality" THEN "preparing"
  ELSE IF data = "bad_data" THEN "rejected"
  ELSE "menu"

\* handle_quality_callback up to the status message of the download
HandleQualityCallback(r, u, data) ==
  /\ req[r].pc = "idle"
  /\ req' = [req EXCEPT ![r] = [kind |-> "callback", user |-> u,
                                        limit |-> "none", pc |-> AfterParse(data),
                                        progress |-> req[r].progress]]
  /\ UNCHANGED <<rmvars, cfgvars, retryvars, limvars, now, global_bucket, user_buckets>>

\* the reply of a handler that does not download was sent: it returns
Reply(r) ==
  /\ req[r].pc \in {"denied", "rejected", "menu"}
  /\ req' = [req EXCEPT ![r] = Returned(r)]
  /\ UNCHANGED <<rmvars, cfgvars, retryvars, limvars, now, global_bucket, user_buckets>>

\* progress_task = asyncio.create_task(update_progress()), then
\* info = await asyncio.to_thread(do_download): extract_info(url,
\* download=True) starts, in download_tiktok_instagram or in
\* handle_quality_callback
StartDownload(r) ==
  /\ req[r].pc = "preparing"
  /\ req' = [req EXCEPT ![r].pc = "downloading", ![r].progress = "running"]
  /\ UNCHANGED <<rmvars, cfgvars, retryvars, limvars, now, global_bucket, user_buckets>>

\* the download returned, and progress_task.cancel() and the await of the
\* task follow, or it raised, and control goes to the except clauses of the
\* handler; the handler reports and sends
EndDownload(r, ok) ==
  /\ req[r].pc = "downloading"
  /\ req' = [req EXCEPT ![r].pc = IF ok THEN "sending" ELSE "failed",
                        ![r].progress = IF ok THEN "none" ELSE @]
  /\ UNCHANGED <<rmvars, cfgvars, retryvars, limvars, now, global_bucket, user_buckets>>

\* the handler of a download returns: after the upload, after the error
\* message, or because an await before the download raised
Finish(r) ==
  /\ req[r].pc \in {"preparing", "sending", "failed"}
  /\ req' = [req EXCEPT ![r] = Returned(r)]
  /\ UNCHANGED <<rmvars, cfgvars, retryvars, limvars, now, global_bucket, user_buckets>>

\* time passes
Tick ==
  /\ now < MaxTime
  /\ now' = now + 1
  /\ UNCHANGED <<rmvars, cfgvars, retryvars, limvars, global_bucket, user_buckets, req>>

Message == \E r \in Reqs, u \in Users, msg \in MessageKinds, d \in 0..1 : HandleMessage(r, u, msg, d)
Callback == \E r \in Reqs, u \in Users, data \in CallbackKinds : HandleQualityCallback(r, u, data)
Replied == \E r \in Reqs : Reply(r)
Started == \E r \in Reqs : StartDownload(r)
Ended == \E r \in Reqs, ok \in BOOLEAN : EndDownload(r, ok)
Finished == \E r \in Reqs : Finish(r)

NextBot == Message \/ Callback \/ Replied \/ Started \/ Ended \/ Finished \/ Tick

\* bot.py builds its manager from config; the handlers are the only callers
InitBot ==
  /\ BotIdle
  /\ BucketIdle
  /\ max_concurrent_downloads = MaxCap
  /\ max_downloads_per_user = MaxCap
  /\ active_downloads = <<>>
  /\ slot_owner = <<>>
  /\ lock = Free
  /\ scopes = [t \in Tasks |-> <<>>]
  /\ last = Call("init", 0, 0, Result("none", "", 0), 0, 0)
  /\ burst = BurstStart
  /\ retry = NoRetry

SpecBot == InitBot /\ [][NextBot]_vars

\* handle_message and the download it starts, with no button pressed
NextBotMessage == Message \/ Replied \/ Started \/ Ended \/ Finished \/ Tick

SpecBotMessage == InitBot /\ [][NextBotMessage]_vars

\* ---- a TokenBucket on its own ----

\* TokenBucket.reset at clock reading t
ResetBucket(b, t) == [b EXCEPT !.tokens = b.capacity, !.last_refill = t]

\* bucket.consume(n)
Consume(n) ==
  /\ n = 1 => Len(run.results) < MaxRun
  /\ bucket' = ConsumeBucket(bucket, now, n)
  /\ call' = Outcome("consume", 0, n, ConsumeOk(bucket, now, n), <<0, 1>>, bucket.tokens)
  /\ run' = IF n = 1 THEN RunMore(0, ConsumeOk(bucket, now, n), <<0, 1>>) ELSE RunOver
  /\ UNCHANGED <<rmvars, botvars, cfgvars, retryvars>>

\* bucket.time_until_ready()
TimeUntilReady ==
  /\ bucket' = ReadyBucket(bucket, now)
  /\ call' = Outcome("time_until_ready", 0, 0, TRUE, ReadyWait(bucket, now), bucket.tokens)
  /\ run' = RunOver
  /\ UNCHANGED <<rmvars, botvars, cfgvars, retryvars>>

\* bucket.reset()
Reset ==
  /\ bucket' = ResetBucket(bucket, now)
  /\ call' = Outcome("reset", 0, 0, TRUE, <<0, 1>>, bucket.tokens)
  /\ run' = RunOver
  /\ UNCHANGED <<rmvars, botvars, cfgvars, retryvars>>

\* time.time() has advanced by one tick
Elapse ==
  /\ now < MaxClock
  /\ now' = now + 1
  /\ call' = NoCall
  /\ run' = RunOver
  /\ UNCHANGED <<rmvars, cfgvars, retryvars, bucket, global_bucket, user_buckets, req>>

\* time.time() was set back by one tick (the wall clock was adjusted)
ClockBack ==
  /\ now > 0
  /\ now' = now - 1
  /\ call' = NoCall
  /\ run' = RunOver
  /\ UNCHANGED <<rmvars, cfgvars, retryvars, bucket, global_bucket, user_buckets, req>>

Consumed == \E n \in 1..MaxConsume : Consume(n)

NextTB == Consumed \/ TimeUntilReady \/ Reset \/ Elapse

\* TokenBucket(capacity, refill_rate) with capacity >= 1 and refill_rate > 0
InitTB ==
  /\ BotIdle
  /\ max_concurrent_downloads = MaxCap
  /\ max_downloads_per_user = MaxCap
  /\ active_downloads = <<>>
  /\ slot_owner = <<>>
  /\ lock = Free
  /\ scopes = [t \in Tasks |-> <<>>]
  /\ last = Call("init", 0, 0, Result("none", "", 0), 0, 0)
  /\ burst = BurstStart
  /\ retry = NoRetry
  /\ \E capacity \in 1..MaxCapacity, rate \in 1..MaxRate :
       bucket = NewBucket(capacity, rate, 0)
  /\ call = Outcome("init", 0, 0, TRUE, <<0, 1>>, 0)
  /\ run = RunStart

SpecTB == InitTB /\ [][NextTB]_vars

\* the same bucket under a wall clock that can be set back
SpecSkew == InitTB /\ [][NextTB \/ ClockBack]_vars

\* ---- a RateLimiter on its own ----

\* the buckets cleanup_old_buckets(max_age) keeps at clock reading t
KeepYoungInclusive(ub, t, max_age) ==
  [x \in {u \in DOMAIN ub : ~(t - ub[u].last_refill >= max_age)} |-> ub[x]]
\* the buckets cleanup_old_buckets keeps: those it does not find older than
\* max_age
KeepYoung(ub, t, max_age) ==
  [x \in {u \in DOMAIN ub : ~(t - ub[u].last_refill > max_age)} |-> ub[x]]

\* limiter.check_limit(u); d is the time that passes between the clock
\* readings of consume and of time_until_ready
CheckLimitCall(u, d) ==
  LET c == CheckLimit(global_bucket, user_buckets, u, now, now + d)
      inRun == run.fresh /\ now = 0 /\ d = 0
      \* what the two consume calls found after their refill, for the
      \* record: pre in the global bucket, upre in the bucket of the user,
      \* -1 when that bucket was not consulted
      found == Min(global_bucket.capacity,
                   global_bucket.tokens
                     + (now - global_bucket.last_refill) * global_bucket.refill_rate)
      foundOfUser == IF u \in DOMAIN user_buckets
                     THEN Min(user_buckets[u].capacity,
                              user_buckets[u].tokens
                                + (now - user_buckets[u].last_refill) * user_buckets[u].refill_rate)
                     ELSE user_capacity * TokenUnit
  IN
  /\ now + d <= MaxClock
  /\ inRun => Len(run.results) < MaxRun
  /\ global_bucket' = c.global
  /\ user_buckets' = c.users
  /\ call' = LimiterOutcome("check_limit", u, 0, c.allowed, c.wait, found,
                            IF found >= TokenUnit THEN foundOfUser ELSE -1,
                            Changed(global_bucket, user_buckets, c.global, c.users, u))
  /\ run' = IF inRun THEN RunMore(u, c.allowed, c.wait) ELSE RunOver
  /\ now' = now + d
  /\ UNCHANGED <<rmvars, cfgvars, retryvars, bucket, req>>

ResetUserCreates(ub, u, t) == SetBucket(ub, u, ResetBucket(BucketOf(ub, u, t), t))
\* if user_id in self.user_buckets: self.user_buckets[user_id].reset()
ResetUserBuckets(ub, u, t) ==
  IF u \in DOMAIN ub THEN SetBucket(ub, u, ResetBucket(ub[u], t)) ELSE ub

\* limiter.reset_user(u); upre records whether the bucket of u was found
\* full (1) or not (0), -1 when u has none
ResetUser(u) ==
  /\ user_buckets' = ResetUserBuckets(user_buckets, u, now)
  /\ call' = LimiterOutcome("reset_user", u, 0, TRUE, <<0, 1>>, 0,
                            IF u \notin DOMAIN user_buckets THEN -1
                            ELSE IF user_buckets[u].tokens = user_buckets[u].capacity THEN 1
                            ELSE 0,
                            Changed(global_bucket, user_buckets,
                                    global_bucket, user_buckets', u))
  /\ run' = RunOver
  /\ UNCHANGED <<rmvars, cfgvars, retryvars, bucket, now, global_bucket, req>>

\* limiter.reset_global()
ResetGlobal ==
  /\ global_bucket' = ResetBucket(global_bucket, now)
  /\ call' = LimiterOutcome("reset_global", 0, 0, TRUE, <<0, 1>>, 0, 0,
                            Changed(global_bucket, user_buckets,
                                    global_bucket', user_buckets, 0))
  /\ run' = RunOver
  /\ UNCHANGED <<rmvars, cfgvars, retryvars, bucket, now, user_buckets, req>>

\* limiter.get_user_status(u): the bucket is made on a miss and refilled,
\* 'tokens' is read, then time_until_ready refills again d later
GetUserStatus(u, d) ==
  LET b == Refill(BucketOf(user_buckets, u, now), now)
      \* for the record: what a refill makes of the tokens the call found
      \* in the bucket of u (a bucket made on the miss is full), and whether
      \* a check_limit(u) that follows the call answers the same with and
      \* without it
      refilled == IF u \in DOMAIN user_buckets
                  THEN Min(user_buckets[u].capacity,
                           user_buckets[u].tokens
                             + (now - user_buckets[u].last_refill) * user_buckets[u].refill_rate)
                  ELSE user_capacity * TokenUnit
  IN
  /\ now + d <= MaxClock
  /\ user_buckets' = SetBucket(user_buckets, u, ReadyBucket(b, now + d))
  /\ call' = LimiterOutcome("get_user_status", u, refilled,
                            CheckLimit(global_bucket, user_buckets', u, now + d, now + d).allowed
                              = CheckLimit(global_bucket, user_buckets, u, now + d, now + d).allowed,
                            ReadyWait(b, now + d), b.tokens, 0,
                            Changed(global_bucket, user_buckets,
                                    global_bucket, user_buckets', u))
  /\ run' = RunOver
  /\ now' = now + d
  /\ UNCHANGED <<rmvars, cfgvars, retryvars, bucket, global_bucket, req>>

\* limiter.cleanup_old_buckets(max_age); pre records how many of the
\* buckets found have an age of at most max_age
CleanupOldBuckets(max_age) ==
  /\ user_buckets' = KeepYoung(user_buckets, now, max_age)
  /\ call' = LimiterOutcome("cleanup_old_buckets", 0, max_age, TRUE, <<0, 1>>,
                            Cardinality({u \in DOMAIN user_buckets :
                                           now - user_buckets[u].last_refill <= max_age}),
                            0,
                            Changed(global_bucket, user_buckets,
                                    global_bucket, user_buckets', 0))
  /\ run' = RunOver
  /\ UNCHANGED <<rmvars, cfgvars, retryvars, bucket, now, global_bucket, req>>

Checked == \E u \in Users, d \in 0..1 : CheckLimitCall(u, d)
UserReset == \E u \in Users : ResetUser(u)
Status == \E u \in Users, d \in 0..1 : GetUserStatus(u, d)
Cleaned == \E max_age \in {0, MaxClock} : CleanupOldBuckets(max_age)

\* the calls that admit or deny and the resets
NextRL == Checked \/ UserReset \/ ResetGlobal \/ Elapse

\* the calls that admit or deny, the status query and the cleanup
NextRLAdmin == Checked \/ Status \/ Cleaned \/ Elapse

\* the calls that refill a bucket, on a wall clock that may also be set back
NextRLSkew == Checked \/ Status \/ Elapse \/ ClockBack

\* the per-user capacities a limiter is built with: one token, and as many
\* as the global bucket holds
Capacities == {1, GlobalCapacity}

\* the per-user refill rates a limiter is built with: half a token per
\* tick, and one token per tick
Rates == {TokenUnit \div 2, TokenUnit}

\* RateLimiter(user_capacity, user_refill_rate, global_capacity) with
\* positive arguments and the default global_refill_rate of 1.0
InitRL ==
  /\ BucketIdle
  /\ max_concurrent_downloads = MaxCap
  /\ max_downloads_per_user = MaxCap
  /\ active_downloads = <<>>
  /\ slot_owner = <<>>
  /\ lock = Free
  /\ scopes = [t \in Tasks |-> <<>>]
  /\ last = Call("init", 0, 0, Result("none", "", 0), 0, 0)
  /\ burst = BurstStart
  /\ retry = NoRetry
  /\ now = 0
  /\ req = [r \in Reqs |-> NoRequest]
  /\ user_capacity \in Capacities
  /\ user_refill_rate \in Rates
  /\ global_bucket = NewBucket(GlobalCapacity, TokenUnit, 0)
  /\ user_buckets = <<>>

SpecRL == InitRL /\ [][NextRL]_vars

SpecRLAdmin == InitRL /\ [][NextRLAdmin]_vars

\* every call of the limiter that bot.py constructs
NextRLBot == Checked \/ UserReset \/ ResetGlobal \/ Status \/ Cleaned \/ Elapse

SpecRLBot == InitBot /\ [][NextRLBot]_vars

\* a limiter on a wall clock that is not monotonic (time.time())
SpecRLSkew == InitRL /\ [][NextRLSkew]_vars

\* ---- startup with any configured limits ----

\* the values a limit is configured with: negative, zero and positive
Limits == -1..1

\* the refill rates 1.0 / rate_limit_period of the periods -1 and 1; with
\* the period 0 the division raises before the limiter is constructed
LimitRates == {-TokenUnit, TokenUnit}

\* BotConfig.__post_init__ checks max_file_size, download_timeout and
\* max_retries only; RateLimiter, TokenBucket and ResourceManager assign
\* their arguments as given
InitAnyLimits ==
  /\ BucketIdle
  /\ max_concurrent_downloads \in Limits
  /\ max_downloads_per_user \in Limits
  /\ active_downloads = <<>>
  /\ slot_owner = <<>>
  /\ lock = Free
  /\ scopes = [t \in Tasks |-> <<>>]
  /\ last = Call("init", 0, 0, Result("none", "", 0), 0, 0)
  /\ burst = BurstStart
  /\ retry = NoRetry
  /\ now = 0
  /\ req = [r \in Reqs |-> NoRequest]
  /\ user_capacity \in Limits
  /\ user_refill_rate \in LimitRates
  /\ global_bucket = NewBucket(GlobalCapacity, TokenUnit, 0)
  /\ user_buckets = <<>>

\* the calls made on the manager startup has constructed
NextAnyLimits == Enter \/ Exit \/ Cancel \/ GetStatus

SpecAnyLimits == InitAnyLimits /\ [][NextAnyLimits]_vars

\* ---- async_retry: one call of the wrapper ----

\* wrapper(*args) of async_retry(max_attempts, delay, backoff, exceptions)
\* starts: current_delay = delay, last_exception = None, attempt 0
RetryStart(m, d, b) ==
  /\ retry.pc = "idle"
  /\ retry' = [NoRetry EXCEPT !.pc = "calling", !.max_attempts = m, !.delay = d,
                              !.backoff = b, !.current_delay = d]
  /\ UNCHANGED <<rmvars, botvars, cfgvars, limvars>>

\* await func(*args) of the current attempt ends: it returns its value (the
\* number of the call stands for it), raises a listed exception, or raises
\* another one
RetryCall(outcome) ==
  /\ retry.pc = "calling"
  /\ LET k == retry.calls + 1
     IN retry' =
          IF outcome = "ok"
          THEN [retry EXCEPT !.calls = k, !.pc = "returned", !.result = k]
          ELSE IF outcome = "other"
          THEN [retry EXCEPT !.calls = k, !.pc = "raised",
                             !.raised = [kind |-> "other", of |-> k]]
          ELSE IF SleepsBeforeNext(retry.attempt, retry.max_attempts)
          THEN [retry EXCEPT !.calls = k, !.last_exception = k, !.pc = "sleeping",
                             !.sleeps = Append(@, retry.current_delay)]
          ELSE [retry EXCEPT !.calls = k, !.last_exception = k, !.pc = "raised",
                             !.raised = [kind |-> "listed", of |-> k]]
  /\ UNCHANGED <<rmvars, botvars, cfgvars, limvars>>

\* asyncio.sleep(current_delay) is over: current_delay *= backoff, and the
\* loop goes to the next attempt or, past the last one, to raise
\* last_exception
RetryWake ==
  /\ retry.pc = "sleeping"
  /\ retry' = IF retry.attempt + 1 < retry.max_attempts
              THEN [retry EXCEPT !.pc = "calling", !.attempt = @ + 1,
                                 !.current_delay = @ * retry.backoff]
              ELSE [retry EXCEPT !.pc = "raised", !.attempt = @ + 1,
                                 !.current_delay = @ * retry.backoff,
                                 !.raised = [kind |-> "listed", of |-> retry.last_exception]]
  /\ UNCHANGED <<rmvars, botvars, cfgvars, limvars>>

\* the caller has the value or the exception (the record keeps them); the
\* wrapper may be called again
RetryOver ==
  /\ retry.pc \in {"returned", "raised"}
  /\ retry' = [retry EXCEPT !.pc = "idle"]
  /\ UNCHANGED <<rmvars, botvars, cfgvars, limvars>>

RetryStarted ==
  \E m \in 1..MaxAttempts, d \in 1..MaxDelay, b \in 1..MaxBackoff : RetryStart(m, d, b)
RetryCalled == \E outcome \in {"ok", "listed", "other"} : RetryCall(outcome)

NextRetry == RetryStarted \/ RetryCalled \/ RetryWake \/ RetryOver

SpecRetry == InitBot /\ [][NextRetry]_vars

\* the wrapped function ends whenever it is awaited, and the event loop ends
\* asyncio.sleep after the delay
SpecRetryLive == SpecRetry /\ WF_vars(RetryCalled) /\ WF_vars(RetryWake)

\* ---- properties of the ResourceManager ----

\* C1: in every reachable state the number of entries of active_downloads
\* is at most max_concurrent_downloads.
GlobalCapHolds == Cardinality(DOMAIN active_downloads) <= max_concurrent_downloads

\* a call was refused with the mapping exactly at the global cap
AtGlobalCapRefused ==
  /\ Cardinality(DOMAIN active_downloads) = max_concurrent_downloads
  /\ last.op = "download_slot"
  /\ last.result.text = "Server is busy"

\* C2: in every reachable state, for every user u, the number of entries
\* of active_downloads whose value is u is at most max_downloads_per_user.
PerUserCapHolds ==
  \A u \in Users :
    Cardinality({k \in DOMAIN active_downloads : active_downloads[k] = u})
      <= max_downloads_per_user

\* a call of a user was refused with that user exactly at the per-user cap
AtUserCapRefused ==
  /\ last.op = "download_slot"
  /\ last.result.text = "You have"
  /\ Cardinality({k \in DOMAIN active_downloads : active_downloads[k] = last.user})
       = max_downloads_per_user

\* C3: no exit path leaks a slot: every entry of active_downloads was
\* inserted by a scope that is still open, so the entry of a scope that
\* was left by return, exception or cancellation is gone.
NoLeakedSlot ==
  \A k \in DOMAIN active_downloads :
    \E t \in Tasks : TaskId(t) = k /\ slot_owner[k] <= Len(scopes[t])

\* a scope whose entry was present was left by cancellation of its task
CancelledScopeReleased ==
  /\ last.op = "exit"
  /\ last.result.type = "cancelled"
  /\ last.result.text = "quiet"
  /\ \A k \in DOMAIN active_downloads : active_downloads[k] # last.user

\* C4: after a granted scope is left with no other operation since it was
\* granted, get_user_active_downloads(user) is what it was right before the
\* scope was granted.
ReleaseRestoresCount ==
  (last.op = "exit" /\ last.result.text = "quiet") =>
    GetUserActiveDownloads(active_downloads, last.user) = last.result.count

\* C5: a granted acquisition inserts under a key that was not in
\* active_downloads: the mapping grows by one entry and no entry changes.
FreshHandlePerAcquisition ==
  [][\A t \in Tasks :
       Len(scopes'[t]) > Len(scopes[t]) =>
         /\ TaskId(t) \notin DOMAIN active_downloads
         /\ Cardinality(DOMAIN active_downloads')
              = Cardinality(DOMAIN active_downloads) + 1
         /\ \A k \in DOMAIN active_downloads :
              k \in DOMAIN active_downloads' /\ active_downloads'[k] = active_downloads[k]
    ]_vars

\* C6: while max_concurrent_downloads scopes are open (every scope entered
\* since construction is still open and none was cancelled), a further
\* download_slot call raises the global error and enters no scope.
FullServerRefuses ==
  [][\A t \in Tasks, u \in Users :
       (/\ burst.ok
        /\ Cardinality(HeldScopes) >= max_concurrent_downloads
        /\ DownloadSlotEnter(t, u))
       => (last'.result.text = "Server is busy" /\ scopes' = scopes)
    ]_vars

\* C7: N parallel calls on a fresh manager, each by a task that holds
\* nothing and for a user below the per-user cap, with no release or
\* cancellation meanwhile: once N >= C, exactly C were granted and N - C
\* were refused with the global error.
ParallelBurstExact ==
  (burst.ok /\ burst.flat /\ burst.calls >= max_concurrent_downloads) =>
    /\ burst.granted = max_concurrent_downloads
    /\ burst.global_fail = burst.calls - max_concurrent_downloads

\* more parallel calls than the cap: two of them were refused
BurstBeyondCap ==
  /\ burst.ok
  /\ burst.flat
  /\ burst.calls > max_concurrent_downloads
  /\ burst.granted = max_concurrent_downloads
  /\ burst.global_fail >= 2

DecisionRule ==
  last.op = "download_slot" =>
    LET r == last.result IN
    /\ (r.type = "ResourceError" /\ r.text = "Server is busy")
         <=> last.n >= max_concurrent_downloads
    /\ (r.type = "ResourceError" /\ r.text = "You have")
         <=> (last.n < max_concurrent_downloads /\ last.pre >= max_downloads_per_user)
    /\ r.type = "granted"
         <=> (last.n < max_concurrent_downloads /\ last.pre < max_downloads_per_user)
    /\ r.text = "Server is busy" => r.count = last.n
    /\ r.text = "You have" => r.count = last.pre
    /\ r.type = "granted" =>
         (TaskId(last.task) \in DOMAIN active_downloads
            /\ active_downloads[TaskId(last.task)] = last.user)
    /\ r.type = "ResourceError" => Cardinality(DOMAIN active_downloads) = last.n

\* the global error was raised for a user who is at the per-user cap too
GlobalErrorWinsOverUser ==
  /\ last.op = "download_slot"
  /\ last.result.text = "Server is busy"
  /\ Cardinality({k \in DOMAIN active_downloads : active_downloads[k] = last.user})
       >= max_downloads_per_user

\* ---- properties of the request handlers ----

\* C10: while a request runs the external download, the ResourceManager
\* holds a slot for the user of that request.
DownloadInsideSlot ==
  \A r \in Reqs :
    req[r].pc = "downloading" =>
      \E k \in DOMAIN active_downloads : active_downloads[k] = req[r].user

\* C11: a request that runs the external download, on the direct path or on
\* the quality-button path, has called check_limit before and was allowed.
DownloadRateLimitGated ==
  \A r \in Reqs : req[r].pc = "downloading" => req[r].limit = "allowed"

\* C12: a request whose check_limit returned allowed = false does nothing
\* but reply the wait time and return: it never reaches the checks of the
\* URL, the quality menu or the download, and it requests no slot.
RateLimitDenialTerminal ==
  \A r \in Reqs :
    req[r].limit = "denied" =>
      (req[r].pc = "denied" /\ active_downloads = <<>> /\ last.op = "init")

\* a message was denied by the rate limiter and its handler is replying
MessageDenied ==
  \E r \in Reqs : req[r].kind = "message" /\ req[r].limit = "denied" /\ req[r].pc = "denied"

\* ---- properties of the RateLimiter ----

\* C13: check_limit(user) returns (true, 0) only if the global bucket and
\* the bucket of the user both held at least one token after their refill,
\* and an admitted call takes exactly one token from each of the two.
AdmissionNeedsBoth ==
  call.op = "check_limit" =>
    /\ call.ok <=> (call.pre >= TokenUnit /\ call.upre >= TokenUnit)
    /\ call.ok =>
         /\ call.wait = <<0, 1>>
         /\ global_bucket.tokens = call.pre - TokenUnit
         /\ call.user \in DOMAIN user_buckets
         /\ user_buckets[call.user].tokens = call.upre - TokenUnit

\* a call was admitted on the last token of both buckets
AdmittedOnLastTokens ==
  /\ call.op = "check_limit"
  /\ call.ok
  /\ call.pre = TokenUnit
  /\ call.upre = TokenUnit
  /\ global_bucket.tokens = 0

\* C14: a check_limit call denied by the global bucket leaves
\* user_buckets as it was: no bucket is created, refilled or consumed.
GlobalDenialLeavesUsers ==
  (call.op = "check_limit" /\ call.upre = -1) =>
    (~call.ok /\ call.changed \subseteq {"global"})

\* a user without a bucket was denied by the global bucket and still has none
GlobalDeniedNoBucket ==
  /\ call.op = "check_limit"
  /\ call.upre = -1
  /\ ~call.ok
  /\ call.user \notin DOMAIN user_buckets
  /\ user_buckets # <<>>

\* C15: a check_limit call that passes the global bucket and is denied by
\* the bucket of the user returns false with the wait of that bucket; the
\* global bucket keeps its decrement and the bucket of the user has none.
NoGlobalRefund ==
  (call.op = "check_limit" /\ call.pre >= TokenUnit /\ call.upre < TokenUnit) =>
    LET b == user_buckets[call.user]
    IN /\ ~call.ok
       /\ global_bucket.tokens = call.pre - TokenUnit
       /\ b.tokens >= call.upre
       /\ b.tokens <= b.capacity
       /\ call.wait = IF b.tokens >= TokenUnit THEN <<0, 1>>
                      ELSE <<TokenUnit - b.tokens, b.refill_rate>>

\* a user was denied by their own bucket while the global bucket had tokens
UserDeniedGlobalCharged ==
  /\ call.op = "check_limit"
  /\ ~call.ok
  /\ call.pre >= TokenUnit
  /\ call.upre >= 0
  /\ call.wait[1] > 0
  /\ global_bucket.tokens = call.pre - TokenUnit

\* C16: on a fresh limiter whose per-user capacity k is at most the global
\* capacity, of the check_limit calls one user makes in a row with no time
\* elapsing the first k are allowed and every later one is denied with a
\* positive wait.
BurstAdmission ==
  (/\ run.fresh
   /\ user_capacity * TokenUnit <= global_bucket.capacity
   /\ \A i \in 1..Len(run.results) : run.results[i].user = run.user) =>
    \A i \in 1..Len(run.results) :
      IF i <= user_capacity
      THEN run.results[i].ok
      ELSE ~run.results[i].ok /\ run.results[i].wait[1] > 0

\* a burst of k + 2 calls with k >= 2
BurstOfKPlusTwo ==
  /\ run.fresh
  /\ user_capacity >= 2
  /\ user_capacity * TokenUnit <= global_bucket.capacity
  /\ Len(run.results) = user_capacity + 2
  /\ \A i \in 1..Len(run.results) : run.results[i].user = run.user
  /\ ~run.results[user_capacity + 1].ok

\* C26: cancel_user_downloads(u) removes every entry of u, returns how many
\* it removed and leaves the entries of the other users as they were; right
\* after it get_user_active_downloads(u) is 0.
CancelRemovesAllOfUser ==
  [][last'.op = "cancel_user_downloads" =>
       /\ active_downloads'
            = [k \in {x \in DOMAIN active_downloads : active_downloads[x] # last'.user}
                 |-> active_downloads[k]]
       /\ last'.result.type = "return"
       /\ last'.result.count
            = Cardinality({x \in DOMAIN active_downloads : active_downloads[x] = last'.user})
       /\ GetUserActiveDownloads(active_downloads', last'.user) = 0]_vars

\* a cancel removed the entries of one user while another user held one
CancelledBesideOther ==
  /\ last.op = "cancel_user_downloads"
  /\ last.result.count >= 1
  /\ ActiveCount(active_downloads) >= 1

\* the scope bodies of user u that are in progress
ScopesOfUser(u) == {p \in HeldScopes : scopes[p[1]][p[2]] = u}

RECURSIVE SumOf(_)
\* the sum of the values of a mapping
SumOf(f) ==
  IF DOMAIN f = {}
  THEN 0
  ELSE LET x == CHOOSE y \in DOMAIN f : TRUE
       IN f[x] + SumOf([y \in DOMAIN f \ {x} |-> f[y]])

\* C28: get_status returns a consistent snapshot: active_downloads is the
\* size of the mapping, the counts of user_breakdown sum to it,
\* active_users is the number of users with an entry, max_downloads is the
\* configured global cap, and the call changes no state.
StatusIsSnapshot ==
  [][last'.op = "get_status" =>
       /\ last'.status.active_downloads = Cardinality(DOMAIN active_downloads)
       /\ SumOf(last'.status.user_breakdown) = last'.status.active_downloads
       /\ \A u \in Users :
            IF \E k \in DOMAIN active_downloads : active_downloads[k] = u
            THEN /\ u \in DOMAIN last'.status.user_breakdown
                 /\ last'.status.user_breakdown[u] >= 1
            ELSE u \notin DOMAIN last'.status.user_breakdown
       /\ last'.status.active_users
            = Cardinality({u \in Users :
                            \E k \in DOMAIN active_downloads : active_downloads[k] = u})
       /\ last'.status.max_downloads = max_concurrent_downloads
       /\ active_downloads' = active_downloads
       /\ scopes' = scopes
       /\ max_concurrent_downloads' = max_concurrent_downloads
       /\ max_downloads_per_user' = max_downloads_per_user]_vars

\* a snapshot of two entries that belong to one user
StatusOfTwoEntriesOneUser ==
  /\ last.op = "get_status"
  /\ last.status.active_downloads = 2
  /\ last.status.active_users = 1

\* C29: no limiter or manager works with a non-positive bucket capacity,
\* refill rate, global download cap or per-user download cap: construction
\* or startup fails instead.
LimitsArePositive ==
  /\ max_concurrent_downloads > 0
  /\ max_downloads_per_user > 0
  /\ user_capacity > 0
  /\ user_refill_rate > 0

\* C22: reset_user(u) sets the bucket of u to tokens = capacity and
\* last_refill = now and changes neither another bucket nor the global
\* bucket; when u has no bucket it changes nothing and creates none.
ResetUserFrame ==
  call.op = "reset_user" =>
    /\ call.changed \subseteq {"own"}
    /\ IF call.upre = -1
       THEN call.changed = {} /\ call.user \notin DOMAIN user_buckets
       ELSE /\ call.user \in DOMAIN user_buckets
            /\ user_buckets[call.user].tokens = user_buckets[call.user].capacity
            /\ user_buckets[call.user].last_refill = now

\* the bucket of a user was found below its capacity and reset while
\* another user's bucket stayed below its capacity
EmptyBucketReset ==
  /\ call.op = "reset_user"
  /\ call.upre = 0
  /\ \E x \in DOMAIN user_buckets \ {call.user} :
       user_buckets[x].tokens < user_buckets[x].capacity

\* C23: get_user_status(u) returns the tokens of the bucket of u after a
\* refill and its wait time, never leaves fewer tokens in that bucket than
\* it found, changes neither the global bucket nor another user's bucket,
\* and a following check_limit(u) answers as it would have without it.
StatusDoesNotConsume ==
  call.op = "get_user_status" =>
    /\ call.pre = call.n
    /\ call.wait = IF user_buckets[call.user].tokens >= TokenUnit
                   THEN <<0, 1>>
                   ELSE <<TokenUnit - user_buckets[call.user].tokens,
                          user_buckets[call.user].refill_rate>>
    /\ call.changed \subseteq {"own", "created"}
    /\ call.ok

\* C24: cleanup_old_buckets(max_age = 0) removes every per-user bucket,
\* also one last refilled at the clock reading of the cleanup call.
CleanupZeroRemovesAll ==
  (call.op = "cleanup_old_buckets" /\ call.n = 0) => user_buckets = <<>>

\* C25: cleanup_old_buckets(max_age) removes exactly the buckets whose
\* last_refill is older than max_age, keeps the others as they were and
\* leaves the global bucket alone; as many buckets are left as were found
\* with an age of at most max_age, so none is removed when none is older.
CleanupRemovesOldOnly ==
  call.op = "cleanup_old_buckets" =>
    /\ \A u \in DOMAIN user_buckets : now - user_buckets[u].last_refill <= call.n
    /\ Cardinality(DOMAIN user_buckets) = call.pre
    /\ call.changed \subseteq {"removed"}

\* a cleanup removed an old bucket and kept a younger one
OldRemovedYoungKept ==
  /\ call.op = "cleanup_old_buckets"
  /\ "removed" \in call.changed
  /\ user_buckets # <<>>

\* the requests of user u admitted in the run
AdmittedOf(u) ==
  {i \in 1..Len(run.results) : run.results[i].ok /\ run.results[i].user = u}

\* C30: a check_limit call is one step, so of the checks that handlers of
\* any users make in any order with no time elapsing, no more are admitted
\* than the global bucket has tokens, and of one user's no more than that
\* user's bucket has.
AtomicAdmission ==
  run.fresh =>
    /\ Cardinality({i \in 1..Len(run.results) : run.results[i].ok}) * TokenUnit
         <= global_bucket.capacity
    /\ \A u \in Users : Cardinality(AdmittedOf(u)) <= user_capacity

\* checks of two users took the global bucket's last token between them
\* and the next check was denied
TwoUsersDrainGlobal ==
  /\ run.fresh
  /\ \E u, v \in Users : u # v /\ AdmittedOf(u) # {} /\ AdmittedOf(v) # {}
  /\ Cardinality({i \in 1..Len(run.results) : run.results[i].ok}) * TokenUnit
       = global_bucket.capacity
  /\ ~run.results[Len(run.results)].ok

\* ---- properties of a TokenBucket ----

\* C17: under a clock that never goes back, after every sequence of
\* consume, time_until_ready and reset calls 0 <= tokens <= capacity, and a
\* new bucket holds capacity tokens.
TokenBounds ==
  /\ 0 <= bucket.tokens
  /\ bucket.tokens <= bucket.capacity
  /\ call.op = "init" => bucket.tokens = bucket.capacity

\* a bucket that was found empty was refilled up to its capacity
EmptyRefilledToCapacity ==
  /\ call.op = "time_until_ready"
  /\ call.pre = 0
  /\ bucket.tokens = bucket.capacity

ConsumeSemantics ==
  [][\A n \in 1..MaxConsume :
       Consume(n) =>
         LET elapsed == now - bucket.last_refill
             refilled == IF bucket.tokens + elapsed * bucket.refill_rate <= bucket.capacity
                         THEN bucket.tokens + elapsed * bucket.refill_rate
                         ELSE bucket.capacity
         IN /\ bucket'.last_refill = now
            /\ bucket'.capacity = bucket.capacity
            /\ bucket'.refill_rate = bucket.refill_rate
            /\ IF refilled >= n * TokenUnit
               THEN call'.ok /\ bucket'.tokens = refilled - n * TokenUnit
               ELSE ~call'.ok /\ bucket'.tokens = refilled
    ]_vars

\* a consume was refused and left more tokens than it found: the refill
\* was kept
RefusedConsumeKeepsRefill ==
  /\ call.op = "consume"
  /\ ~call.ok
  /\ bucket.tokens > call.pre

\* C20: of the consume(1) calls made in a row with no time elapsing, at
\* most capacity return true, and none returns true after one returned
\* false.
BurstBound ==
  LET res == run.results
  IN /\ Cardinality({i \in 1..Len(res) : res[i].ok}) * TokenUnit <= bucket.capacity
     /\ \A i, j \in 1..Len(res) : (i < j /\ res[j].ok) => res[i].ok

\* capacity calls in a row returned true and the next one false
BurstThenDenied ==
  LET res == run.results
  IN /\ Len(res) * TokenUnit = bucket.capacity + TokenUnit
     /\ \A i \in 1..Len(res) : res[i].ok <=> i < Len(res)

DenialHasPositiveWait ==
  (call.op = "check_limit" /\ ~call.ok) => call.wait[1] > 0

\* C32: while cancel_user_downloads is not called, active_downloads has as
\* many entries as scopes were granted and not yet released, and as many
\* entries of each user as that user has such scopes, also when one task
\* holds several nested scopes.
BookkeepingMatchesScopes ==
  /\ Cardinality(DOMAIN active_downloads) = Cardinality(HeldScopes)
  /\ \A u \in Users : UserActive(active_downloads, u) = Cardinality(ScopesOfUser(u))

\* C33: the lock is not held while a scope body runs: in every state
\* between two calls the lock is free, so a call by any task, also a nested
\* download_slot of a task that is inside a scope, takes the lock without
\* waiting, and every scope in progress can be left.
LockFreeWhileBodiesRun ==
  /\ lock = Free
  /\ \A t \in Tasks : Len(scopes[t]) > 0 => ENABLED DownloadSlotExit(t, "return")

\* a task is inside two nested scopes, another task inside one, and a
\* call made meanwhile has returned
CallsCompleteBesideBodies ==
  /\ \E t1, t2 \in Tasks : t1 # t2 /\ Len(scopes[t1]) >= 2 /\ Len(scopes[t2]) >= 1
  /\ last.op \in {"get_status", "cancel_user_downloads"}
  /\ lock = Free

\* C34: the progress task started before a download is cancelled or has
\* ended by the time the handler finishes, on every exit path of the
\* download: no handler returns while its progress task is running.
ProgressEndsWithDownload ==
  [][\A r \in Reqs : (req[r].pc # "idle" /\ req'[r].pc = "idle") =>
                       req[r].progress # "running"]_vars

\* C35: a download_slot call that raises ResourceError leaves
\* active_downloads as it was and the lock free, enters no scope body and
\* runs no release.
RefusalChangesNothing ==
  [][(last'.op = "download_slot" /\ last'.result.type = "ResourceError") =>
       /\ active_downloads' = active_downloads
       /\ scopes' = scopes
       /\ lock' = Free]_vars

\* a task inside a scope was refused a nested one for the same user, and
\* its entry is still there
NestedRefusedKeepsEntry ==
  /\ last.op = "download_slot"
  /\ last.result.text = "You have"
  /\ lock = Free
  /\ \E t \in Tasks :
       /\ Len(scopes[t]) = 1
       /\ TopUser(t) = last.user
       /\ TaskId(t) \in DOMAIN active_downloads
       /\ \A x \in Tasks \ {t} : Len(scopes[x]) = 0

\* C36: the exit of a scope whose entry is gone from active_downloads, as
\* after cancel_user_downloads removed it, raises no error of its own and
\* removes no entry, also none that another scope inserted since.
ReleaseAfterCancelIsNoOp ==
  [][\A t \in Tasks :
       (/\ last'.op = "exit"
        /\ Len(scopes'[t]) < Len(scopes[t])
        /\ TaskId(t) \notin DOMAIN active_downloads) =>
         /\ active_downloads' = active_downloads
         /\ last'.result.type \in {"return", "exception", "cancelled"}]_vars

\* a scope was left without removing an entry while the entry of a scope
\* of another task, none of them nested, stayed in the mapping
NoOpExitBesideEntry ==
  /\ last.op = "exit"
  /\ last.n = 0
  /\ \A t \in Tasks : Len(scopes[t]) <= 1
  /\ \E t \in Tasks : Len(scopes[t]) = 1 /\ TaskId(t) \in DOMAIN active_downloads

\* the tokens a refill at clock reading t makes of those of bucket b
RefilledTokens(b, t) == Min(b.capacity, b.tokens + (t - b.last_refill) * b.refill_rate)

\* C37: handle_message calls check_limit before it looks at the text:
\* whatever the message is, also one that validation rejects, it takes one
\* token of the global bucket if there is one and then one token of the
\* sender's bucket if there is one, and a rejected message gets none back.
RateLimitPrecedesValidation ==
  [][\A r \in Reqs :
       /\ (req[r].pc = "idle" /\ req'[r].kind = "message") =>
            LET u == req'[r].user
                g == RefilledTokens(global_bucket, now)
                b == IF u \in DOMAIN user_buckets
                     THEN RefilledTokens(user_buckets[u], now)
                     ELSE user_capacity * TokenUnit
            IN IF g < TokenUnit
               THEN req'[r].pc = "denied" /\ user_buckets' = user_buckets
               ELSE /\ global_bucket'.tokens = g - TokenUnit
                    /\ IF b < TokenUnit
                       THEN req'[r].pc = "denied"
                       ELSE /\ user_buckets'[u].tokens = b - TokenUnit
                            /\ req'[r].pc \in {"rejected", "menu", "preparing"}
       /\ (req[r].pc = "rejected" /\ req'[r].pc = "idle") =>
            (global_bucket' = global_bucket /\ user_buckets' = user_buckets)]_vars

\* a message that validation rejects has cost one global token and one
\* token of its sender
RejectedMessageCharged ==
  \E r \in Reqs :
    /\ req[r].kind = "message"
    /\ req[r].pc = "rejected"
    /\ global_bucket.tokens < global_bucket.capacity
    /\ req[r].user \in DOMAIN user_buckets
    /\ user_buckets[req[r].user].tokens < user_buckets[req[r].user].capacity

\* C38: the set of users that have a bucket gains a user only through a
\* check_limit call that passed the global gate or through
\* get_user_status, and loses users only through cleanup_old_buckets;
\* reset_user, reset_global and a globally denied check_limit leave it as
\* it was.
BucketMapGrowth ==
  /\ "created" \in call.changed =>
       \/ call.op = "check_limit" /\ call.upre # -1
       \/ call.op = "get_user_status"
  /\ "removed" \in call.changed => call.op = "cleanup_old_buckets"
  /\ (\/ call.op \in {"reset_user", "reset_global"}
      \/ call.op = "check_limit" /\ call.upre = -1) =>
       call.changed \cap {"created", "removed"} = {}

\* a status query made a full bucket for a user that had none
StatusCreatedBucket ==
  /\ call.op = "get_user_status"
  /\ call.changed = {"created"}
  /\ user_buckets[call.user].tokens = user_buckets[call.user].capacity

\* every attempt failed with a listed exception and the last one was raised
\* after more than one sleep
RetryExhausted ==
  /\ retry.pc = "raised"
  /\ retry.raised.kind = "listed"
  /\ retry.calls = retry.max_attempts
  /\ Len(retry.sleeps) > 1
  /\ retry.backoff > 1

\* C39: a call of a function wrapped by async_retry with max_attempts >= 1
\* calls the function at most max_attempts times; it returns the value of the
\* first call that succeeds and calls no more; after max_attempts failures
\* with a listed exception it raises the last of them; an exception that is
\* not listed is raised at once; it sleeps only between two attempts, the
\* i-th time for delay * backoff^(i-1); and it ends, with a value or an
\* exception, whenever the wrapped function ends.
AsyncRetryAttempts ==
  /\ [](
      /\ retry.calls <= retry.max_attempts
      /\ Len(retry.sleeps) <= retry.calls
      /\ \A i \in 1..Len(retry.sleeps) :
            retry.sleeps[i] = retry.delay * Pow(retry.backoff, i - 1)
      /\ retry.pc = "calling" => Len(retry.sleeps) = retry.calls
      /\ retry.pc = "sleeping" =>
            Len(retry.sleeps) = retry.calls /\ retry.calls < retry.max_attempts
      /\ retry.pc = "returned" =>
            retry.result = retry.calls /\ Len(retry.sleeps) = retry.calls - 1
      /\ retry.pc = "raised" =>
            /\ Len(retry.sleeps) = retry.calls - 1
            /\ retry.raised.of = retry.calls
            /\ retry.raised.kind = "listed" => retry.calls = retry.max_attempts)
  /\ (retry.pc \in {"calling", "sleeping"}) ~> (retry.pc \in {"returned", "raised"})

====
